---- MODULE Spec2Model ----
(***************************************************************************)
(* Model of the chat / approval / OAuth-consent state of the Foundry agent *)
(* web application (src/spa_foundry_agent_webapp/src/App.js).              *)
(*                                                                         *)
(* The React state of the App component is the state of the model.  Every  *)
(* event handler is one action; an asynchronous handler is split at its    *)
(* awaits: the part up to the first await (the handler's own step), the    *)
(* resolution of the silent token acquisition, and the resolution of the   *)
(* fetch.  A button or input that is rendered disabled, or not rendered,   *)
(* cannot start its handler: the rendering condition is the enabling       *)
(* condition of the action, the handler's early return is an unchanged     *)
(* step inside it.                                                         *)
(***************************************************************************)
EXTENDS Naturals, Sequences, FiniteSets, TLC

VARIABLES
    messages,                     \* transcript, App.js:95
    previousResponseId,           \* chain token, App.js:96
    pendingApprovals,             \* approval batch or null, App.js:99
    approvalDecisions,            \* id -> boolean, App.js:100
    pendingResponseIdForApproval, \* App.js:101
    oauthConsentLink,             \* App.js:104
    pendingResponseIdForOauth,    \* App.js:105
    chatLoading,                  \* App.js:94
    chatInput,                    \* App.js:93
    error,                        \* App.js:81
    needsConsent,                 \* App.js:82
    accessToken,                  \* App.js:84
    tokenClaims,                  \* App.js:86
    account,                      \* App.js:76-79
    msalInstance,                 \* index.js:9, the identity client
    redirectResp,                 \* index.js:15, resp
    pc,                           \* the position of bootstrap, index.js:11-49
    redirect,                     \* observation: how handleRedirectPromise settled
    calls,                        \* postChat invocations that have not returned yet
    last,                         \* observation: the step taken last
    lastRid                       \* observation: the response_id received last in this chat

chatVars == <<messages, previousResponseId, pendingApprovals, approvalDecisions,
              pendingResponseIdForApproval, oauthConsentLink, pendingResponseIdForOauth>>

vars == <<messages, previousResponseId, pendingApprovals, approvalDecisions,
          pendingResponseIdForApproval, oauthConsentLink, pendingResponseIdForOauth,
          chatLoading, chatInput, error, needsConsent, accessToken, tokenClaims,
          account, msalInstance, redirectResp, pc, redirect, calls,
          last, lastRid>>

bootVars == <<msalInstance, redirectResp, pc, redirect>>

appVars == <<messages, previousResponseId, pendingApprovals, approvalDecisions,
             pendingResponseIdForApproval, oauthConsentLink, pendingResponseIdForOauth,
             chatLoading, chatInput, error, needsConsent, accessToken, tokenClaims,
             calls, last, lastRid>>

(***************************************************************************)
(* Bounds of the model.                                                    *)
(***************************************************************************)
MaxMsgs == 3      \* longest transcript explored
MaxCalls == 2     \* most postChat invocations explored at once

(***************************************************************************)
(* JavaScript values.                                                      *)
(***************************************************************************)
NULL == "null"              \* the value null
Absent == "undefined"       \* a field the JSON body does not carry
NoBatch == <<NULL>>         \* pendingApprovals === null
AbsentArr == <<Absent>>     \* approval_requests not carried

\* !x for the scalar values of the model
Falsy(x) == x \in {NULL, Absent, ""}

\* x || null
OrNull(x) == IF Falsy(x) THEN NULL ELSE x

\* a || []
OrEmpty(a) == IF a \in {NoBatch, AbsentArr} THEN <<>> ELSE a

\* a?.length, with undefined counted as 0 where it is only tested for truth
OptLen(a) == IF a \in {NoBatch, AbsentArr} THEN 0 ELSE Len(a)

\* !!approvalDecisions[id]
Decided(dec, id) == id \in DOMAIN dec /\ dec[id]

\* String.prototype.trim on the inputs of the model
Trim(s) == CASE s = " " -> ""
             [] s = " hi " -> "hi"
             [] OTHER -> s

Range(s) == {s[i] : i \in 1..Len(s)}

EmptyDecisions == [x \in {} |-> FALSE]

(***************************************************************************)
(* Constants of the program.                                               *)
(***************************************************************************)
DEFAULT_AGENT_NAME == "MultiToolAgentV1"
\* the first sentence of the message the consent branch appends
ConsentNotice == "OAuth consent required to access the MCP tools."
NoOutputText == "(no output_text)"
NoTokenError == "No access token (consent required?)"

(***************************************************************************)
(* What the environment can supply.                                        *)
(***************************************************************************)
Inputs == {"", " ", " hi "}
Tokens == {"tok"}
\* getActiveAccount() ?? accounts?.[0] ?? null: nobody signed in, or one account
Accounts == {NULL, "acct"}

\* the redirect result as resp?.account reads it: null has no account field
NullResult == [account |-> Absent]

\* decodeJwtPayload: the parsed payload segment of the token, null when the
\* token has no payload that parses
decodeJwtPayload(token) ==
    CASE token = "tok" -> "payload of tok"
      [] OTHER -> NULL
Rids == {Absent, "", "r1", "r2"}
Links == {Absent, "l1"}
Batches == {AbsentArr, <<>>, <<"a1">>, <<"a1", "a2">>}
Outputs == {Absent, "", "out"}
\* bodies of 2xx answers: the three documented shapes, and bodies that carry the
\* fields of several shapes at once
ConsentResponses ==
    [status : {"oauth_consent_required"}, consent_link : Links, response_id : Rids,
     approval_requests : {AbsentArr}, output_text : {Absent}]
ApprovalResponses ==
    [status : {"approval_required"}, consent_link : {Absent}, response_id : Rids,
     approval_requests : Batches, output_text : {Absent}]
FinalResponses ==
    [status : {Absent}, consent_link : {Absent}, response_id : Rids,
     approval_requests : {AbsentArr}, output_text : Outputs]
MixedResponses ==
    [status : {Absent, "oauth_consent_required", "approval_required"},
     consent_link : {"l2"}, response_id : {"r2"},
     approval_requests : {<<"a1">>}, output_text : {"out"}]
Responses == ConsentResponses \cup ApprovalResponses \cup FinalResponses \cup MixedResponses
\* body of a non-2xx answer: {detail?, error?} and the status code
ErrorBodies == [detail : {Absent, "", "d"}, error : {Absent, "", "e"}, status : {"500"}]

NoResp == [status |-> "none", consent_link |-> Absent, response_id |-> Absent,
           approval_requests |-> AbsentArr, output_text |-> Absent]

\* the observation made of a step: its operation; where it came from (the handler
\* that issued the call it completed, or the mode it left); whether the chat was
\* cleared while that call was in flight; and the body received
Step(op, from, stale, resp) == [op |-> op, from |-> from, stale |-> stale, resp |-> resp]
Did(op) == Step(op, "none", FALSE, NoResp)

(***************************************************************************)
(* Initial state: the useState initialisers, App.js:81-105.                *)
(***************************************************************************)
useStateInit ==
    /\ messages = <<>>
    /\ previousResponseId = NULL
    /\ pendingApprovals = NoBatch
    /\ approvalDecisions = EmptyDecisions
    /\ pendingResponseIdForApproval = NULL
    /\ oauthConsentLink = NULL
    /\ pendingResponseIdForOauth = NULL
    /\ chatLoading = FALSE
    /\ chatInput = ""
    /\ error = NULL
    /\ needsConsent = FALSE
    /\ accessToken = NULL
    /\ tokenClaims = NULL
    /\ calls = <<>>
    /\ last = Did("init")
    /\ lastRid = "none"

\* the page as bootstrap has rendered it: nobody signed in, or one account
Init ==
    /\ useStateInit
    /\ account \in Accounts
    /\ msalInstance = [initialized |-> TRUE,
                       accounts |-> IF account = NULL THEN <<>> ELSE <<account>>,
                       activeAccount |-> account]
    /\ redirectResp = NullResult
    /\ pc = "rendered"
    /\ redirect = "done"

(***************************************************************************)
(* What the page renders (the JSX of the chat panel).                      *)
(***************************************************************************)
\* disabled= of the chat input
ChatInputDisabled == chatLoading \/ needsConsent \/ ~Falsy(oauthConsentLink)

\* {oauthConsentLink && ( ...consent panel... )}
ConsentPanelShown == ~Falsy(oauthConsentLink)

\* {pendingApprovals?.length > 0 && ( ...approval panel... )}
ApprovalPanelShown == OptLen(pendingApprovals) > 0

\* observation: the interaction mode the page is in
Mode ==
    IF chatLoading THEN "AwaitingAssistant"
    ELSE IF ConsentPanelShown THEN "AwaitingConsent"
    ELSE IF ApprovalPanelShown THEN "AwaitingApprovals"
    ELSE "Idle"

(***************************************************************************)
(* postChat: the invocation as it stands when the handler reaches its      *)
(* first await.  With a cached token the fetch is under way; without one   *)
(* the silent acquisition is.                                              *)
(***************************************************************************)
\* mutant: the fetch is issued whether or not a token was obtained
postChatNoTokenCheck(op, body) ==
    [op |-> op, body |-> body, phase |-> "fetch", token |-> accessToken, stale |-> FALSE]

postChat(op, body) ==
    [op |-> op, body |-> body,
     phase |-> IF Falsy(accessToken) THEN "token" ELSE "fetch",
     token |-> accessToken,
     stale |-> FALSE]

RemoveAt(s, i) == [j \in 1..(Len(s) - 1) |-> IF j < i THEN s[j] ELSE s[j + 1]]

\* mutant: the handlers forget to raise the in-flight flag
LoadingNotSet == FALSE

\* setChatLoading(true) of the three handlers
LoadingWhileInFlight == TRUE

\* mutant: only the approved requests are reported
ApprovalsPayloadApprovedOnly(batch, dec) ==
    LET approved == SelectSeq(batch, LAMBDA id : Decided(dec, id)) IN
    [i \in 1..Len(approved) |-> [approval_request_id |-> approved[i], approve |-> TRUE]]

\* the approvals array of submitApprovals
ApprovalsPayload(batch, dec) ==
    [i \in 1..Len(batch) |->
        [approval_request_id |-> batch[i], approve |-> Decided(dec, batch[i])]]

(***************************************************************************)
(* applyChatResponse                                                       *)
(***************************************************************************)
\* mutant: the approval branch does not move the chain token
ChainTokenOfApprovalSkipped(data) ==
    IF data.status = "approval_required" THEN previousResponseId
    ELSE OrNull(data.response_id)

\* the id every branch stores: data.response_id || null
ChainTokenOf(data) == OrNull(data.response_id)

\* mutant: every request of a new batch is approved by default
DefaultDecisionsApproveAll(reqs) == [id \in Range(OrEmpty(reqs)) |-> TRUE]

\* mutant: the new defaults are merged into the decisions of the earlier batch
DefaultDecisionsMerged(reqs) ==
    [id \in (DOMAIN approvalDecisions) \cup Range(OrEmpty(reqs)) |->
        IF id \in Range(OrEmpty(reqs)) THEN FALSE ELSE approvalDecisions[id]]

\* defaults[r.id] = false for every request of the batch
DefaultDecisions(reqs) == [id \in Range(OrEmpty(reqs)) |-> FALSE]

\* mutant: an empty output is appended as it is
OutputTextOfNoPlaceholder(data) == IF Falsy(data.output_text) THEN "" ELSE data.output_text

\* out || "(no output_text)" with out = data.output_text || ""
OutputTextOf(data) == IF Falsy(data.output_text) THEN NoOutputText ELSE data.output_text

\* whether applying the body appends a message
AppendsMessage(data) == data.status # "approval_required"

\* mutant: a consent link already stored is kept when another one arrives
applyChatResponseKeepsFirstLink(data) ==
    IF data.status = "oauth_consent_required"
    THEN /\ oauthConsentLink' = IF Falsy(oauthConsentLink) THEN OrNull(data.consent_link)
                                ELSE oauthConsentLink
         /\ pendingResponseIdForOauth' = ChainTokenOf(data)
         /\ previousResponseId' = ChainTokenOf(data)
         /\ messages' = Append(messages, [role |-> "assistant", text |-> ConsentNotice])
         /\ UNCHANGED <<pendingApprovals, approvalDecisions, pendingResponseIdForApproval>>
    ELSE IF data.status = "approval_required"
    THEN /\ pendingApprovals' = OrEmpty(data.approval_requests)
         /\ pendingResponseIdForApproval' = ChainTokenOf(data)
         /\ previousResponseId' = ChainTokenOf(data)
         /\ approvalDecisions' = DefaultDecisions(data.approval_requests)
         /\ UNCHANGED <<messages, oauthConsentLink, pendingResponseIdForOauth>>
    ELSE /\ messages' = Append(messages, [role |-> "assistant", text |-> OutputTextOf(data)])
         /\ previousResponseId' = ChainTokenOf(data)
         /\ pendingApprovals' = NoBatch
         /\ pendingResponseIdForApproval' = NULL
         /\ approvalDecisions' = EmptyDecisions
         /\ oauthConsentLink' = NULL
         /\ pendingResponseIdForOauth' = NULL

\* mutant: each of the two pending branches clears the state of the other flow
applyChatResponseClearsOtherFlow(data) ==
    IF data.status = "oauth_consent_required"
    THEN /\ oauthConsentLink' = OrNull(data.consent_link)
         /\ pendingResponseIdForOauth' = ChainTokenOf(data)
         /\ previousResponseId' = ChainTokenOf(data)
         /\ messages' = Append(messages, [role |-> "assistant", text |-> ConsentNotice])
         /\ pendingApprovals' = NoBatch
         /\ pendingResponseIdForApproval' = NULL
         /\ approvalDecisions' = EmptyDecisions
    ELSE IF data.status = "approval_required"
    THEN /\ pendingApprovals' = OrEmpty(data.approval_requests)
         /\ pendingResponseIdForApproval' = ChainTokenOf(data)
         /\ previousResponseId' = ChainTokenOf(data)
         /\ approvalDecisions' = DefaultDecisions(data.approval_requests)
         /\ oauthConsentLink' = NULL
         /\ pendingResponseIdForOauth' = NULL
         /\ UNCHANGED messages
    ELSE /\ messages' = Append(messages, [role |-> "assistant", text |-> OutputTextOf(data)])
         /\ previousResponseId' = ChainTokenOf(data)
         /\ pendingApprovals' = NoBatch
         /\ pendingResponseIdForApproval' = NULL
         /\ approvalDecisions' = EmptyDecisions
         /\ oauthConsentLink' = NULL
         /\ pendingResponseIdForOauth' = NULL

\* mutant: the consent branch does not return and runs on into the final branch
applyChatResponseFallsThrough(data) ==
    IF data.status = "approval_required"
    THEN /\ pendingApprovals' = OrEmpty(data.approval_requests)
         /\ pendingResponseIdForApproval' = ChainTokenOf(data)
         /\ previousResponseId' = ChainTokenOf(data)
         /\ approvalDecisions' = DefaultDecisions(data.approval_requests)
         /\ UNCHANGED <<messages, oauthConsentLink, pendingResponseIdForOauth>>
    ELSE /\ messages' = Append(IF data.status = "oauth_consent_required"
                               THEN Append(messages, [role |-> "assistant", text |-> ConsentNotice])
                               ELSE messages,
                               [role |-> "assistant", text |-> OutputTextOf(data)])
         /\ previousResponseId' = ChainTokenOf(data)
         /\ pendingApprovals' = NoBatch
         /\ pendingResponseIdForApproval' = NULL
         /\ approvalDecisions' = EmptyDecisions
         /\ oauthConsentLink' = NULL
         /\ pendingResponseIdForOauth' = NULL

applyChatResponse(data) ==
    IF data.status = "oauth_consent_required"
    THEN /\ oauthConsentLink' = OrNull(data.consent_link)
         /\ pendingResponseIdForOauth' = ChainTokenOf(data)
         /\ previousResponseId' = ChainTokenOf(data)
         /\ messages' = Append(messages, [role |-> "assistant", text |-> ConsentNotice])
         /\ UNCHANGED <<pendingApprovals, approvalDecisions, pendingResponseIdForApproval>>
    ELSE IF data.status = "approval_required"
    THEN /\ pendingApprovals' = OrEmpty(data.approval_requests)
         /\ pendingResponseIdForApproval' = ChainTokenOf(data)
         /\ previousResponseId' = ChainTokenOf(data)
         /\ approvalDecisions' = DefaultDecisions(data.approval_requests)
         /\ UNCHANGED <<messages, oauthConsentLink, pendingResponseIdForOauth>>
    ELSE /\ messages' = Append(messages, [role |-> "assistant", text |-> OutputTextOf(data)])
         /\ previousResponseId' = ChainTokenOf(data)
         /\ pendingApprovals' = NoBatch
         /\ pendingResponseIdForApproval' = NULL
         /\ approvalDecisions' = EmptyDecisions
         /\ oauthConsentLink' = NULL
         /\ pendingResponseIdForOauth' = NULL

(***************************************************************************)
(* The handlers of the chat panel.                                         *)
(***************************************************************************)
UserMessage(text) == [role |-> "user", text |-> text]

MarkStale(cs) == [j \in 1..Len(cs) |-> [cs[j] EXCEPT !.stale = TRUE]]

\* onChange of the chat input
TypeInput(s) ==
    /\ ~ChatInputDisabled
    /\ s # chatInput
    /\ chatInput' = s
    /\ UNCHANGED <<chatVars, chatLoading, error, needsConsent, accessToken, tokenClaims, account, bootVars, calls,
                   last, lastRid>>

\* mutant: the input is sent as typed, without trim()
sendMessageUntrimmed ==
    LET text == chatInput IN
    IF text = "" \/ chatLoading
    THEN UNCHANGED vars
    ELSE /\ Len(messages) < MaxMsgs
         /\ Len(calls) < MaxCalls
         /\ error' = NULL
         /\ chatInput' = ""
         /\ chatLoading' = LoadingWhileInFlight
         /\ messages' = Append(messages, UserMessage(text))
         /\ calls' = Append(calls, postChat("send",
                          [agent_name |-> DEFAULT_AGENT_NAME,
                           message |-> text,
                           previous_response_id |-> previousResponseId]))
         /\ last' = Did("send")
         /\ UNCHANGED <<previousResponseId, pendingApprovals, approvalDecisions,
                        pendingResponseIdForApproval, oauthConsentLink,
                        pendingResponseIdForOauth, needsConsent, accessToken, tokenClaims, account, bootVars, lastRid>>

\* mutant: a text equal to the last user message of the transcript is not
\* appended again
sendMessageDedup ==
    LET text == Trim(chatInput) IN
    IF text = "" \/ chatLoading
    THEN UNCHANGED vars
    ELSE /\ Len(messages) < MaxMsgs
         /\ Len(calls) < MaxCalls
         /\ error' = NULL
         /\ chatInput' = ""
         /\ chatLoading' = LoadingWhileInFlight
         /\ messages' = IF messages # <<>> /\ messages[Len(messages)] = UserMessage(text)
                        THEN messages
                        ELSE Append(messages, UserMessage(text))
         /\ calls' = Append(calls, postChat("send",
                          [agent_name |-> DEFAULT_AGENT_NAME,
                           message |-> text,
                           previous_response_id |-> previousResponseId]))
         /\ last' = Did("send")
         /\ UNCHANGED <<previousResponseId, pendingApprovals, approvalDecisions,
                        pendingResponseIdForApproval, oauthConsentLink,
                        pendingResponseIdForOauth, needsConsent, accessToken, tokenClaims, account, bootVars, lastRid>>

sendMessage ==
    LET text == Trim(chatInput) IN
    IF text = "" \/ chatLoading
    THEN UNCHANGED vars
    ELSE /\ Len(messages) < MaxMsgs
         /\ Len(calls) < MaxCalls
         /\ error' = NULL
         /\ chatInput' = ""
         /\ chatLoading' = LoadingWhileInFlight
         /\ messages' = Append(messages, UserMessage(text))
         /\ calls' = Append(calls, postChat("send",
                          [agent_name |-> DEFAULT_AGENT_NAME,
                           message |-> text,
                           previous_response_id |-> previousResponseId]))
         /\ last' = Did("send")
         /\ UNCHANGED <<previousResponseId, pendingApprovals, approvalDecisions,
                        pendingResponseIdForApproval, oauthConsentLink,
                        pendingResponseIdForOauth, needsConsent, accessToken, tokenClaims, account, bootVars, lastRid>>

\* Enter in the chat input, or the Send button
SendMessage == ~ChatInputDisabled /\ sendMessage

\* mutant: consent-completed is sent as an ordinary chat message
resumeAfterOauthConsentAsMessage ==
    IF Falsy(pendingResponseIdForOauth) \/ chatLoading
    THEN UNCHANGED vars
    ELSE /\ Len(calls) < MaxCalls
         /\ error' = NULL
         /\ chatLoading' = LoadingWhileInFlight
         /\ calls' = Append(calls, postChat("resume",
                          [agent_name |-> DEFAULT_AGENT_NAME,
                           previous_response_id |-> pendingResponseIdForOauth,
                           message |-> "continue"]))
         /\ last' = Did("resume")
         /\ UNCHANGED <<chatVars, chatInput, needsConsent, accessToken, tokenClaims, account, bootVars, lastRid>>

resumeAfterOauthConsent ==
    IF Falsy(pendingResponseIdForOauth) \/ chatLoading
    THEN UNCHANGED vars
    ELSE /\ Len(calls) < MaxCalls
         /\ error' = NULL
         /\ chatLoading' = LoadingWhileInFlight
         /\ calls' = Append(calls, postChat("resume",
                          [agent_name |-> DEFAULT_AGENT_NAME,
                           previous_response_id |-> pendingResponseIdForOauth,
                           action |-> "continue"]))
         /\ last' = Did("resume")
         /\ UNCHANGED <<chatVars, chatInput, needsConsent, accessToken, tokenClaims, account, bootVars, lastRid>>

\* the "I completed sign-in" button of the consent panel
ResumeAfterOauthConsent == ConsentPanelShown /\ ~chatLoading /\ resumeAfterOauthConsent

\* mutant: the submission continues from the chain token of the conversation
submitApprovalsFromChainToken ==
    IF OptLen(pendingApprovals) = 0 \/ Falsy(pendingResponseIdForApproval) \/ chatLoading
    THEN UNCHANGED vars
    ELSE /\ Len(calls) < MaxCalls
         /\ error' = NULL
         /\ chatLoading' = LoadingWhileInFlight
         /\ calls' = Append(calls, postChat("approve",
                          [agent_name |-> DEFAULT_AGENT_NAME,
                           previous_response_id |-> previousResponseId,
                           approvals |-> ApprovalsPayload(pendingApprovals, approvalDecisions)]))
         /\ last' = Did("approve")
         /\ UNCHANGED <<chatVars, chatInput, needsConsent, accessToken, tokenClaims, account, bootVars, lastRid>>

submitApprovals ==
    IF OptLen(pendingApprovals) = 0 \/ Falsy(pendingResponseIdForApproval) \/ chatLoading
    THEN UNCHANGED vars
    ELSE /\ Len(calls) < MaxCalls
         /\ error' = NULL
         /\ chatLoading' = LoadingWhileInFlight
         /\ calls' = Append(calls, postChat("approve",
                          [agent_name |-> DEFAULT_AGENT_NAME,
                           previous_response_id |-> pendingResponseIdForApproval,
                           approvals |-> ApprovalsPayload(pendingApprovals, approvalDecisions)]))
         /\ last' = Did("approve")
         /\ UNCHANGED <<chatVars, chatInput, needsConsent, accessToken, tokenClaims, account, bootVars, lastRid>>

\* the "Submit approvals" button of the approval panel
SubmitApprovals == ApprovalPanelShown /\ ~chatLoading /\ submitApprovals

\* onChange of the Approve checkbox of request id: e.target.checked is the
\* negation of what the controlled checkbox shows
\* mutant: the checkbox of one request flips the decision of every request
ToggleDecisionOfAll(id) ==
    /\ ApprovalPanelShown
    /\ id \in Range(pendingApprovals)
    /\ approvalDecisions' =
           [x \in (DOMAIN approvalDecisions) \cup {id} |-> ~Decided(approvalDecisions, x)]
    /\ UNCHANGED <<last, messages, previousResponseId, pendingApprovals,
                   pendingResponseIdForApproval, oauthConsentLink,
                   pendingResponseIdForOauth, chatLoading, chatInput, error,
                   needsConsent, accessToken, tokenClaims, account, bootVars, calls, lastRid>>

ToggleDecision(id) ==
    /\ ApprovalPanelShown
    /\ id \in Range(pendingApprovals)
    /\ approvalDecisions' =
           [x \in (DOMAIN approvalDecisions) \cup {id} |->
               IF x = id THEN ~Decided(approvalDecisions, id) ELSE approvalDecisions[x]]
    /\ UNCHANGED <<last, messages, previousResponseId, pendingApprovals,
                   pendingResponseIdForApproval, oauthConsentLink,
                   pendingResponseIdForOauth, chatLoading, chatInput, error,
                   needsConsent, accessToken, tokenClaims, account, bootVars, calls, lastRid>>

\* mutant: Deny all empties the decision map
DenyAllEmpties ==
    /\ ApprovalPanelShown
    /\ ~chatLoading
    /\ approvalDecisions' = EmptyDecisions
    /\ UNCHANGED <<last, messages, previousResponseId, pendingApprovals,
                   pendingResponseIdForApproval, oauthConsentLink,
                   pendingResponseIdForOauth, chatLoading, chatInput, error,
                   needsConsent, accessToken, tokenClaims, account, bootVars, calls, lastRid>>

\* the "Deny all" button of the approval panel
DenyAll ==
    /\ ApprovalPanelShown
    /\ ~chatLoading
    /\ approvalDecisions' = [id \in Range(pendingApprovals) |-> FALSE]
    /\ UNCHANGED <<last, messages, previousResponseId, pendingApprovals,
                   pendingResponseIdForApproval, oauthConsentLink,
                   pendingResponseIdForOauth, chatLoading, chatInput, error,
                   needsConsent, accessToken, tokenClaims, account, bootVars, calls, lastRid>>

\* mutant: New chat keeps the chain token
resetChatKeepsToken ==
    /\ messages' = <<>>
    /\ pendingApprovals' = NoBatch
    /\ approvalDecisions' = EmptyDecisions
    /\ pendingResponseIdForApproval' = NULL
    /\ oauthConsentLink' = NULL
    /\ pendingResponseIdForOauth' = NULL
    /\ error' = NULL
    /\ calls' = MarkStale(calls)
    /\ last' = Step("reset", Mode, FALSE, NoResp)
    /\ lastRid' = "none"
    /\ UNCHANGED <<previousResponseId, chatLoading, chatInput, needsConsent, accessToken, tokenClaims, account, bootVars>>

resetChat ==
    /\ messages' = <<>>
    /\ previousResponseId' = NULL
    /\ pendingApprovals' = NoBatch
    /\ approvalDecisions' = EmptyDecisions
    /\ pendingResponseIdForApproval' = NULL
    /\ oauthConsentLink' = NULL
    /\ pendingResponseIdForOauth' = NULL
    /\ error' = NULL
    /\ calls' = MarkStale(calls)
    /\ last' = Step("reset", Mode, FALSE, NoResp)
    /\ lastRid' = "none"
    /\ UNCHANGED <<chatLoading, chatInput, needsConsent, accessToken, tokenClaims, account, bootVars>>

\* the "New chat" button
ResetChat == ~chatLoading /\ resetChat

\* mutant: sign-out keeps the decoded claims and the pending approval batch
logoutKeepsClaims ==
    /\ error' = NULL
    /\ needsConsent' = FALSE
    /\ accessToken' = NULL
    /\ messages' = <<>>
    /\ previousResponseId' = NULL
    /\ approvalDecisions' = EmptyDecisions
    /\ pendingResponseIdForApproval' = NULL
    /\ oauthConsentLink' = NULL
    /\ pendingResponseIdForOauth' = NULL
    /\ calls' = MarkStale(calls)
    /\ last' = Step("logout", Mode, FALSE, NoResp)
    /\ lastRid' = "none"
    /\ UNCHANGED <<chatLoading, chatInput, account, bootVars, tokenClaims, pendingApprovals>>

\* the "Sign out" button, up to the redirect
logout ==
    /\ error' = NULL
    /\ needsConsent' = FALSE
    /\ accessToken' = NULL
    /\ tokenClaims' = NULL
    /\ messages' = <<>>
    /\ previousResponseId' = NULL
    /\ pendingApprovals' = NoBatch
    /\ approvalDecisions' = EmptyDecisions
    /\ pendingResponseIdForApproval' = NULL
    /\ oauthConsentLink' = NULL
    /\ pendingResponseIdForOauth' = NULL
    /\ calls' = MarkStale(calls)
    /\ last' = Step("logout", Mode, FALSE, NoResp)
    /\ lastRid' = "none"
    /\ UNCHANGED <<chatLoading, chatInput, account, bootVars>>

Logout == logout

(***************************************************************************)
(* tryGetTokenSilent                                                       *)
(***************************************************************************)
TokenOutcomes == Tokens \cup {"interaction_required", "failure"}
TokenFailure == "silent token acquisition failed"

\* the flag after acquireTokenSilent has settled with outcome o
NeedsConsentAfter(o) ==
    IF o \in Tokens THEN FALSE
    ELSE IF o = "interaction_required" THEN TRUE
    ELSE needsConsent

\* what tryGetTokenSilent returns when acquireTokenSilent settles with o
TokenReturned(o) ==
    IF account = NULL THEN NULL
    ELSE IF o \in Tokens THEN o
    ELSE NULL

\* mutant: tryGetTokenSilent without its account test
tryGetTokenSilentAnyAccount(o) ==
    /\ accessToken' = IF o \in Tokens THEN o ELSE accessToken
    /\ tokenClaims' = IF o \in Tokens THEN decodeJwtPayload(o) ELSE tokenClaims
    /\ needsConsent' = NeedsConsentAfter(o)
    /\ error' = IF o = "failure" THEN TokenFailure ELSE NULL

\* the state that tryGetTokenSilent sets when acquireTokenSilent settles with o
tryGetTokenSilent(o) ==
    IF account = NULL
    THEN UNCHANGED <<error, needsConsent, accessToken, tokenClaims>>
    ELSE /\ accessToken' = IF o \in Tokens THEN o ELSE accessToken
         /\ tokenClaims' = IF o \in Tokens THEN decodeJwtPayload(o) ELSE tokenClaims
         /\ needsConsent' = NeedsConsentAfter(o)
         /\ error' = IF o = "failure" THEN TokenFailure ELSE NULL

\* the "Refresh token (silent)" button and the effect that runs once the
\* sign-in has completed
RefreshToken(o) ==
    /\ tryGetTokenSilent(o)
    /\ UNCHANGED <<chatVars, chatLoading, chatInput, account, bootVars, calls, last, lastRid>>

(***************************************************************************)
(* The rest of a handler, from the await of postChat on.                   *)
(***************************************************************************)
NetworkError == "Failed to fetch"
HttpStatusMessage(status) == CASE status = "500" -> "HTTP 500"
                               [] OTHER -> "HTTP"

\* mutant: the error field is preferred to the detail field
HttpErrorMessageErrorFirst(eb) ==
    IF ~Falsy(eb.error) THEN eb.error
    ELSE IF ~Falsy(eb.detail) THEN eb.detail
    ELSE HttpStatusMessage(eb.status)

\* data?.detail || data?.error || `HTTP ${res.status}`
HttpErrorMessage(eb) ==
    IF ~Falsy(eb.detail) THEN eb.detail
    ELSE IF ~Falsy(eb.error) THEN eb.error
    ELSE HttpStatusMessage(eb.status)

\* mutant: the catch issues the fetch of the failed call once more
FailedRetries(i, msg) ==
    /\ error' = msg
    /\ chatLoading' = FALSE
    /\ calls' = [calls EXCEPT ![i].phase = "fetch"]
    /\ last' = Step("fail", calls[i].op, calls[i].stale, NoResp)
    /\ UNCHANGED <<chatVars, chatInput, lastRid>>

\* mutant: the handler has no finally, the in-flight flag stays raised
FailedKeepsLoading(i, msg) ==
    /\ error' = msg
    /\ calls' = RemoveAt(calls, i)
    /\ last' = Step("fail", calls[i].op, calls[i].stale, NoResp)
    /\ UNCHANGED <<chatVars, chatLoading, chatInput, lastRid>>

\* mutant: the catch takes the last message back out of the transcript
FailedDropsMessage(i, msg) ==
    /\ error' = msg
    /\ chatLoading' = FALSE
    /\ calls' = RemoveAt(calls, i)
    /\ last' = Step("fail", calls[i].op, calls[i].stale, NoResp)
    /\ messages' = IF messages = <<>> THEN messages
                   ELSE SubSeq(messages, 1, Len(messages) - 1)
    /\ UNCHANGED <<previousResponseId, pendingApprovals, approvalDecisions,
                   pendingResponseIdForApproval, oauthConsentLink,
                   pendingResponseIdForOauth, chatInput, lastRid>>

\* catch and finally of the handler that awaits call i
Failed(i, msg) ==
    /\ error' = msg
    /\ chatLoading' = FALSE
    /\ calls' = RemoveAt(calls, i)
    /\ last' = Step("fail", calls[i].op, calls[i].stale, NoResp)
    /\ UNCHANGED <<chatVars, chatInput, lastRid>>

\* acquireTokenSilent of call i settles
TokenResolved(i, o) ==
    /\ calls[i].phase = "token"
    /\ IF o \in Tokens
       THEN /\ accessToken' = o
            /\ tokenClaims' = decodeJwtPayload(o)
            /\ needsConsent' = FALSE
            /\ calls' = [calls EXCEPT ![i].phase = "fetch", ![i].token = o]
            /\ UNCHANGED <<chatVars, chatLoading, chatInput, error, account, bootVars,
                           last, lastRid>>
       ELSE /\ needsConsent' = NeedsConsentAfter(o)
            /\ Failed(i, NoTokenError)
            /\ UNCHANGED <<accessToken, tokenClaims, account, bootVars>>

\* fetch of call i rejects
FetchRejected(i) ==
    /\ calls[i].phase = "fetch"
    /\ Failed(i, NetworkError)
    /\ UNCHANGED <<needsConsent, accessToken, tokenClaims, account, bootVars>>

\* fetch of call i answers with a status outside 200-299
FetchNotOk(i, eb) ==
    /\ calls[i].phase = "fetch"
    /\ Failed(i, HttpErrorMessage(eb))
    /\ UNCHANGED <<needsConsent, accessToken, tokenClaims, account, bootVars>>

\* mutant: the in-flight flag is cleared only in the catch, not after an
\* answer has been applied
FetchOkKeepsLoading(i, data) ==
    /\ calls[i].phase = "fetch"
    /\ AppendsMessage(data) => Len(messages) < MaxMsgs
    /\ applyChatResponse(data)
    /\ calls' = RemoveAt(calls, i)
    /\ last' = Step("recv", calls[i].op, calls[i].stale, data)
    /\ lastRid' = IF Falsy(data.response_id) THEN lastRid ELSE data.response_id
    /\ UNCHANGED <<chatLoading, chatInput, error, needsConsent, accessToken, tokenClaims, account, bootVars>>

\* fetch of call i answers 2xx with body data
FetchOk(i, data) ==
    /\ calls[i].phase = "fetch"
    /\ AppendsMessage(data) => Len(messages) < MaxMsgs
    /\ applyChatResponse(data)
    /\ chatLoading' = FALSE
    /\ calls' = RemoveAt(calls, i)
    /\ last' = Step("recv", calls[i].op, calls[i].stale, data)
    /\ lastRid' = IF Falsy(data.response_id) THEN lastRid ELSE data.response_id
    /\ UNCHANGED <<chatInput, error, needsConsent, accessToken, tokenClaims, account, bootVars>>

TypeSomething == \E s \in Inputs : TypeInput(s)
ToggleSomething == \E id \in {"a1", "a2"} : ToggleDecision(id)
TokenRefreshed == \E o \in TokenOutcomes : RefreshToken(o)
TokenSettles == \E i \in 1..Len(calls) : \E o \in TokenOutcomes : TokenResolved(i, o)
FetchFails == \E i \in 1..Len(calls) : FetchRejected(i)
FetchAnswersError == \E i \in 1..Len(calls) : \E eb \in ErrorBodies : FetchNotOk(i, eb)
FetchAnswers == \E i \in 1..Len(calls) : \E data \in Responses : FetchOk(i, data)

\* the header buttons and the chat panel are rendered for a signed-in account
SignedIn == account # NULL

Next ==
    \/ SignedIn /\ TypeSomething
    \/ SignedIn /\ SendMessage
    \/ SignedIn /\ ResumeAfterOauthConsent
    \/ SignedIn /\ SubmitApprovals
    \/ SignedIn /\ ToggleSomething
    \/ SignedIn /\ DenyAll
    \/ SignedIn /\ ResetChat
    \/ SignedIn /\ Logout
    \/ SignedIn /\ TokenRefreshed
    \/ TokenSettles
    \/ FetchFails
    \/ FetchAnswersError
    \/ FetchAnswers

Spec == Init /\ [][Next]_vars

(***************************************************************************)
(* The same program when every await settles: the promise of               *)
(* acquireTokenSilent and the promise of fetch each resolve or reject.     *)
(***************************************************************************)
FetchSettles == FetchFails \/ FetchAnswersError \/ FetchAnswers

FairSpec == Spec /\ WF_vars(TokenSettles) /\ WF_vars(FetchSettles)

(***************************************************************************)
(* Reading a step off the observation.                                     *)
(***************************************************************************)
\* the step completed a postChat with a 2xx answer; last'.resp is its body
Received == Len(calls') < Len(calls) /\ last'.op = "recv"

\* the step sent a request; NewCall is the postChat invocation it started
Sent == Len(calls') > Len(calls)
NewCall == calls'[Len(calls')]

ConsentPending == ~Falsy(oauthConsentLink)
BatchPending == OptLen(pendingApprovals) > 0

InitialSession ==
    /\ messages = <<>>
    /\ previousResponseId = NULL
    /\ oauthConsentLink = NULL
    /\ pendingApprovals = NoBatch
    /\ approvalDecisions = EmptyDecisions
    /\ ~chatLoading

(***************************************************************************)
(* C1: a consent link and a non-empty approval batch are never pending at  *)
(* the same time.                                                          *)
(***************************************************************************)
C1_NeverConsentAndApprovals == ~(ConsentPending /\ BatchPending)

(***************************************************************************)
(* C2: while a consent link or an approval batch is pending, a step never  *)
(* sends a request carrying a message, nor appends a user message.         *)
(***************************************************************************)
C2_NoChatWhilePending ==
    [][(ConsentPending \/ BatchPending) =>
          /\ ~(Sent /\ NewCall.op = "send")
          /\ ~(/\ Len(messages') > Len(messages)
               /\ messages'[Len(messages')].role = "user")]_vars

(***************************************************************************)
(* C3: a received 2xx body that carries a response_id (a non-empty         *)
(* identifier) leaves the chain token equal to that identifier, whichever  *)
(* branch applies it.                                                      *)
(***************************************************************************)
C3_ChainTokenIsResponseId ==
    [][(Received /\ ~Falsy(last'.resp.response_id)) =>
          previousResponseId' = last'.resp.response_id]_vars

C3_Witness ==
    /\ last.op = "recv"
    /\ last.resp.status = "approval_required"
    /\ last.resp.response_id = "r2"
    /\ last.from = "resume"
    /\ previousResponseId = "r2"
    /\ lastRid = "r2"

(***************************************************************************)
(* C4: a received 2xx body that carries no response_id leaves the chain    *)
(* token as it was.                                                        *)
(***************************************************************************)
C4_ChainTokenKeptOnAbsence ==
    [][(Received /\ Falsy(last'.resp.response_id)) =>
          previousResponseId' = previousResponseId]_vars

(***************************************************************************)
(* C5: once a response_id has been received in the conversation, every     *)
(* request sent carries the response_id received last.                     *)
(***************************************************************************)
C5_RequestsCarryLatestToken ==
    [][(Sent /\ lastRid # "none") =>
          NewCall.body.previous_response_id = lastRid]_vars

C7_LateResponseIgnored ==
    [][(Received /\ last'.stale) =>
          /\ messages' = messages
          /\ previousResponseId' = previousResponseId
          /\ oauthConsentLink' = oauthConsentLink
          /\ pendingApprovals' = pendingApprovals]_vars

(***************************************************************************)
(* C8: at most one request is outstanding, and no step sends a request     *)
(* while one is outstanding.                                               *)
(***************************************************************************)
C8_OneRequestOutstanding ==
    /\ [](Len(calls) <= 1)
    /\ [][(calls # <<>>) => ~Sent]_vars

C8_Witness ==
    /\ Len(calls) = 1
    /\ chatLoading
    /\ Trim(chatInput) # ""
    /\ BatchPending

(***************************************************************************)
(* C9: the approvals of a submitted request list the requests of the       *)
(* pending batch, one entry each and in batch order, with approve true     *)
(* exactly for the ids whose decision is true.                             *)
(***************************************************************************)
C9_ApprovalsCoverBatch ==
    [][(Sent /\ NewCall.op = "approve") =>
          LET a == NewCall.body.approvals IN
          /\ Len(a) = Len(pendingApprovals)
          /\ \A i \in 1..Len(a) :
                /\ a[i].approval_request_id = pendingApprovals[i]
                /\ a[i].approve =
                      (/\ pendingApprovals[i] \in DOMAIN approvalDecisions
                       /\ approvalDecisions[pendingApprovals[i]] = TRUE)]_vars

C9_Witness ==
    \E i \in 1..Len(calls) :
        /\ calls[i].op = "approve"
        /\ calls[i].body.approvals =
              <<[approval_request_id |-> "a1", approve |-> TRUE],
                [approval_request_id |-> "a2", approve |-> FALSE]>>

(***************************************************************************)
(* C10: applying an approval_required body stores its approval_requests    *)
(* (none when the field is missing) and leaves a decision map whose keys   *)
(* are the ids of that batch, all mapped to false.                         *)
(***************************************************************************)
C10_BatchStoredAllDenied ==
    [][(Received /\ last'.resp.status = "approval_required") =>
          /\ pendingApprovals' = (IF last'.resp.approval_requests = AbsentArr
                                  THEN <<>> ELSE last'.resp.approval_requests)
          /\ DOMAIN approvalDecisions' = Range(pendingApprovals')
          /\ \A id \in DOMAIN approvalDecisions' : approvalDecisions'[id] = FALSE]_vars

C10_Witness ==
    /\ last.op = "recv"
    /\ last.from = "approve"
    /\ last.resp.status = "approval_required"
    /\ last.resp.approval_requests = <<"a1">>
    /\ pendingApprovals = <<"a1">>
    /\ approvalDecisions = [id \in {"a1"} |-> FALSE]

\* the step completed a postChat with a failure
FailedStep == Len(calls') < Len(calls) /\ last'.op = "fail"

(***************************************************************************)
(* C11: a failing request appends no message, sets the error, lowers the   *)
(* in-flight flag and leaves the chain token, the consent link and its     *)
(* token, the batch, its token and the decisions as they were, so that the *)
(* page is back in the mode it showed before the request.                  *)
(***************************************************************************)
C11_FailureChangesNoChatState ==
    [][FailedStep =>
          /\ messages' = messages
          /\ error' # NULL
          /\ chatLoading' = FALSE
          /\ previousResponseId' = previousResponseId
          /\ oauthConsentLink' = oauthConsentLink
          /\ pendingResponseIdForOauth' = pendingResponseIdForOauth
          /\ pendingApprovals' = pendingApprovals
          /\ pendingResponseIdForApproval' = pendingResponseIdForApproval
          /\ approvalDecisions' = approvalDecisions
          /\ Mode' = (IF ConsentPanelShown THEN "AwaitingConsent"
                      ELSE IF ApprovalPanelShown THEN "AwaitingApprovals"
                      ELSE "Idle")]_vars

C11_Witness ==
    /\ last.op = "fail"
    /\ last.from = "approve"
    /\ error = "d"
    /\ ~chatLoading
    /\ pendingApprovals = <<"a1", "a2">>
    /\ pendingResponseIdForApproval = "r1"
    /\ approvalDecisions = [id \in {"a1", "a2"} |-> id = "a1"]
    /\ Mode = "AwaitingApprovals"

(***************************************************************************)
(* C12.  A send has failed, it was issued with no consent link and no      *)
(* batch pending, and the chat has not been cleared since.                 *)
(***************************************************************************)
FailedSendFromIdle ==
    /\ last.op = "fail"
    /\ last.from = "send"
    /\ ~last.stale
    /\ ~ConsentPending
    /\ ~BatchPending

\* the chat input takes text, and sending text issues a request
RetryAccepted ==
    /\ ~ChatInputDisabled
    /\ (Trim(chatInput) # "" /\ Len(messages) < MaxMsgs) => ENABLED (SendMessage /\ Sent)

IsFinal(data) == data.status \notin {"oauth_consent_required", "approval_required"}

(***************************************************************************)
(* C13.  Applying a final-output response appends exactly one assistant    *)
(* message, whose text is the response's output_text or the placeholder    *)
(* when that is absent or empty, and leaves no consent link, no batch, no  *)
(* pending token and no decision: the mode is Idle.                        *)
(***************************************************************************)
C13_FinalOutputApplied ==
    [][(Received /\ IsFinal(last'.resp)) =>
          /\ messages' = Append(messages,
                 [role |-> "assistant",
                  text |-> IF last'.resp.output_text \in {Absent, ""}
                           THEN NoOutputText ELSE last'.resp.output_text])
          /\ messages'[Len(messages')].text # ""
          /\ oauthConsentLink' = NULL
          /\ pendingResponseIdForOauth' = NULL
          /\ pendingApprovals' = NoBatch
          /\ pendingResponseIdForApproval' = NULL
          /\ approvalDecisions' = EmptyDecisions
          /\ Mode' = "Idle"]_vars

C13_Witness ==
    /\ last.op = "recv" /\ last.from = "approve"
    /\ IsFinal(last.resp) /\ last.resp.output_text = ""
    /\ messages # <<>>
    /\ messages[Len(messages)] = [role |-> "assistant", text |-> NoOutputText]
    /\ pendingApprovals = NoBatch /\ approvalDecisions = EmptyDecisions
    /\ Mode = "Idle"

\* what each branch does to the session, seen on a step
ConsentEffects(data) ==
    /\ oauthConsentLink' = OrNull(data.consent_link)
    /\ pendingResponseIdForOauth' = OrNull(data.response_id)
    /\ messages' = Append(messages, [role |-> "assistant", text |-> ConsentNotice])
ApprovalEffects(data) ==
    /\ pendingApprovals' = OrEmpty(data.approval_requests)
    /\ pendingResponseIdForApproval' = OrNull(data.response_id)
    /\ \A id \in DOMAIN approvalDecisions' : ~approvalDecisions'[id]
    /\ DOMAIN approvalDecisions' = Range(pendingApprovals')
FinalEffects(data) ==
    /\ messages' = Append(messages,
           [role |-> "assistant",
            text |-> IF Falsy(data.output_text) THEN NoOutputText ELSE data.output_text])
    /\ oauthConsentLink' = NULL /\ pendingResponseIdForOauth' = NULL
    /\ pendingApprovals' = NoBatch /\ pendingResponseIdForApproval' = NULL
    /\ approvalDecisions' = EmptyDecisions
ConsentUntouched == UNCHANGED <<oauthConsentLink, pendingResponseIdForOauth>>
ApprovalUntouched ==
    UNCHANGED <<pendingApprovals, pendingResponseIdForApproval, approvalDecisions>>

(***************************************************************************)
(* C14.  A received response takes exactly one branch, chosen by what it   *)
(* declares: consent-required first, else approvals-required, else final   *)
(* output.  Whatever other fields the body carries, only the effects of    *)
(* that branch are applied: the consent branch leaves the approval state   *)
(* alone and appends only the notice, the approval branch leaves the       *)
(* consent state and the transcript alone.                                 *)
(***************************************************************************)
C14_OneBranchPerResponse ==
    [][Received =>
          LET data == last'.resp IN
          IF data.status = "oauth_consent_required"
          THEN ConsentEffects(data) /\ ApprovalUntouched
          ELSE IF data.status = "approval_required"
          THEN ApprovalEffects(data) /\ ConsentUntouched /\ messages' = messages
          ELSE FinalEffects(data)]_vars

C14_Witness ==
    /\ last.op = "recv"
    /\ last.resp.status = "oauth_consent_required"
    /\ last.resp.approval_requests = <<"a1">>
    /\ last.resp.output_text = "out"
    /\ oauthConsentLink = "l2"
    /\ pendingApprovals = NoBatch
    /\ messages # <<>>
    /\ messages[Len(messages)].text = ConsentNotice

(***************************************************************************)
(* C15.  In consent mode with no request in flight, "I completed sign-in"  *)
(* sends exactly one request; the request carries action = continue and    *)
(* the chain token that arrived with the consent-required response, has no *)
(* message field, and the step appends nothing to the transcript.          *)
(***************************************************************************)
C15_ResumeSendsContinue ==
    /\ []((ConsentPanelShown /\ ~chatLoading /\ Len(calls) < MaxCalls) =>
             ENABLED (ResumeAfterOauthConsent /\ Sent))
    /\ [][(Sent /\ NewCall.op = "resume") =>
             /\ Len(calls') = Len(calls) + 1
             /\ NewCall.body.action = "continue"
             /\ NewCall.body.previous_response_id = pendingResponseIdForOauth
             /\ ~Falsy(NewCall.body.previous_response_id)
             /\ "message" \notin DOMAIN NewCall.body
             /\ messages' = messages]_vars

(***************************************************************************)
(* C16.  No chat request is on the network without a bearer token: every   *)
(* call whose fetch is under way carries a non-null token; and when there  *)
(* is no cached token and the silent acquisition yields none, the call     *)
(* ends without a fetch, the error is set, and the pending consent and     *)
(* approval state and the chain token are as before.                       *)
(***************************************************************************)
C16_NoRequestWithoutToken ==
    /\ [](\A i \in 1..Len(calls) : calls[i].phase = "fetch" => ~Falsy(calls[i].token))
    /\ [][(Sent /\ NewCall.phase = "fetch") => NewCall.token = accessToken]_vars
    /\ [][\A i \in 1..Len(calls) : \A o \in TokenOutcomes \ Tokens :
             TokenResolved(i, o) =>
                /\ calls[i].phase = "token"
                /\ Falsy(calls[i].token)
                /\ calls' = RemoveAt(calls, i)
                /\ error' = NoTokenError
                /\ ~chatLoading'
                /\ UNCHANGED <<previousResponseId, oauthConsentLink,
                               pendingResponseIdForOauth, pendingApprovals,
                               pendingResponseIdForApproval, approvalDecisions,
                               messages>>]_vars

C16_Witness ==
    /\ last.op = "fail" /\ last.from = "send"
    /\ error = NoTokenError
    /\ accessToken = NULL
    /\ calls = <<>>
    /\ messages = <<UserMessage("hi")>>
    /\ previousResponseId = NULL

\* a field of an error body that carries a text
Present(x) == x \notin {Absent, NULL, ""}

(***************************************************************************)
(* C17.  An answer outside 2xx is a failure whose message is the body's    *)
(* detail when present, else the body's error when present, else the       *)
(* message made of the status code; a 2xx answer is applied and sets no    *)
(* error.                                                                  *)
(***************************************************************************)
C17_HttpErrorMessage ==
    /\ [](\A i \in 1..Len(calls) : \A eb \in ErrorBodies :
             ~ENABLED (/\ FetchNotOk(i, eb)
                       /\ ~(/\ last'.op = "fail"
                            /\ ~chatLoading'
                            /\ error' = (CASE Present(eb.detail) -> eb.detail
                                           [] ~Present(eb.detail) /\ Present(eb.error) -> eb.error
                                           [] OTHER -> "HTTP 500"))))
    /\ [][Received => error' = error]_vars

C17_Witness ==
    /\ last.op = "fail" /\ last.from = "resume"
    /\ error = "e"
    /\ ~chatLoading
    /\ ConsentPending

\* the calls whose fetch is on the network
InFetch(cs) == Cardinality({i \in 1..Len(cs) : cs[i].phase = "fetch"})

(***************************************************************************)
(* C18.  Nothing is retried automatically.  A call is issued only by a     *)
(* step of send, consent-completed or submit approvals, one call per step; *)
(* a failure ends its call and puts no fetch on the network; and a fetch   *)
(* starts only with such a step or when the silent token acquisition of a  *)
(* call already issued succeeds.                                           *)
(***************************************************************************)
C18_NoAutomaticRetry ==
    /\ [][Sent =>
             /\ Len(calls') = Len(calls) + 1
             /\ SubSeq(calls', 1, Len(calls)) = calls
             /\ last'.op \in {"send", "resume", "approve"}
             /\ NewCall.op = last'.op]_vars
    /\ [][(last'.op = "fail" /\ last.op # "fail") => FailedStep]_vars
    /\ [][FailedStep =>
             /\ Len(calls') = Len(calls) - 1
             /\ InFetch(calls') <= InFetch(calls)]_vars
    /\ [][InFetch(calls') > InFetch(calls) =>
             \/ Sent
             \/ /\ Len(calls') = Len(calls)
                /\ InFetch(calls') = InFetch(calls) + 1
                /\ last' = last]_vars

C18_Witness ==
    /\ last.op = "fail" /\ last.from = "resume"
    /\ error = NetworkError
    /\ calls = <<>>
    /\ ~chatLoading
    /\ ConsentPending

(***************************************************************************)
(* C19.  Once the answer to a submission of approvals has been received,   *)
(* the submitted batch and its decisions are no longer pending, whatever   *)
(* branch the answer takes: an answer asking for approvals leaves only its *)
(* own batch with fresh decisions, any other answer leaves no batch and no *)
(* decisions, so the submitted batch cannot be submitted again.            *)
(***************************************************************************)
C19_SubmittedBatchCleared ==
    [][(Received /\ last'.from = "approve" /\ ~last'.stale) =>
          IF last'.resp.status = "approval_required"
          THEN /\ pendingApprovals' = OrEmpty(last'.resp.approval_requests)
               /\ \A id \in DOMAIN approvalDecisions' : ~approvalDecisions'[id]
          ELSE /\ ~BatchPending'
               /\ approvalDecisions' = EmptyDecisions]_vars

(***************************************************************************)
(* C20.  Applying a consent-required response, with or without a           *)
(* consent_link, puts the session in consent mode with the chat input      *)
(* disabled, and the consent state is then cleared only by a response that *)
(* is not consent-required or by clearing the session: by no other user    *)
(* action and by no failed request.                                        *)
(***************************************************************************)
C20_ConsentModeHeld ==
    /\ [][(Received /\ last'.resp.status = "oauth_consent_required") =>
             /\ ConsentPending'
             /\ ConsentPanelShown'
             /\ ChatInputDisabled'
             /\ Mode' = "AwaitingConsent"]_vars
    /\ [][(ConsentPending /\ ~ConsentPending') =>
             \/ Received /\ last'.resp.status # "oauth_consent_required"
             \/ last'.op \in {"reset", "logout"}]_vars

(***************************************************************************)
(* C21.  submitApprovals run with a pending batch of zero items, with the  *)
(* batch's token stored and no request in flight, sends a request whose    *)
(* approvals field is the empty array.                                     *)
(***************************************************************************)
C21_EmptyBatchIsSent ==
    (/\ pendingApprovals = <<>>
     /\ ~Falsy(pendingResponseIdForApproval)
     /\ ~chatLoading
     /\ Len(calls) < MaxCalls)
    => ENABLED (submitApprovals /\ Sent /\ NewCall.body.approvals = <<>>)

\* a run of the handler that surfaces nothing: the error is still null, or
\* nothing at all has changed, or a request has been sent
Silent == error' = NULL \/ UNCHANGED vars \/ Sent

(***************************************************************************)
(* C22.  An action attempted from an illegal mode fails loudly: submitting *)
(* approvals when no batch is pending, or signalling consent-completed     *)
(* when no consent is pending, ends with the error set; it is never a      *)
(* silent no-op and never sends a request.                                 *)
(***************************************************************************)
C22_IllegalActionFailsLoudly ==
    /\ (~BatchPending /\ ~chatLoading) => ~ENABLED (submitApprovals /\ Silent)
    /\ (~ConsentPending /\ Falsy(pendingResponseIdForOauth) /\ ~chatLoading)
          => ~ENABLED (resumeAfterOauthConsent /\ Silent)

(***************************************************************************)
(* C23.  A consent-required response applied while a consent link is       *)
(* already stored replaces it: the stored link and the stored consent      *)
(* token are those of the new response (null for a field it does not       *)
(* carry), and nothing of the first link remains.                          *)
(***************************************************************************)
C23_SecondConsentReplaces ==
    [][(Received /\ ConsentPending /\ last'.resp.status = "oauth_consent_required") =>
          /\ oauthConsentLink' = (IF Present(last'.resp.consent_link)
                                  THEN last'.resp.consent_link ELSE NULL)
          /\ pendingResponseIdForOauth' = (IF Present(last'.resp.response_id)
                                           THEN last'.resp.response_id ELSE NULL)]_vars

C23_Witness ==
    /\ last.op = "recv" /\ last.from = "resume" /\ ~last.stale
    /\ last.resp.status = "oauth_consent_required"
    /\ last.resp.consent_link = "l2"
    /\ oauthConsentLink = "l2"
    /\ pendingResponseIdForOauth = "r2"
    /\ messages = <<UserMessage("hi"),
                    [role |-> "assistant", text |-> ConsentNotice],
                    [role |-> "assistant", text |-> ConsentNotice]>>

IsPrefix(a, b) == Len(a) <= Len(b) /\ SubSeq(b, 1, Len(a)) = a

(***************************************************************************)
(* C24.  Between resets the transcript is append-only: every step either   *)
(* leaves the previous transcript as a prefix of the new one, or is the    *)
(* clearing of the chat by New chat or sign-out; and every accepted send   *)
(* appends exactly one user message, the text sent, also when the same     *)
(* text is sent twice.                                                     *)
(***************************************************************************)
C24_TranscriptAppendOnly ==
    /\ [][\/ IsPrefix(messages, messages')
          \/ last'.op \in {"reset", "logout"} /\ messages' = <<>>]_vars
    /\ [][(Sent /\ NewCall.op = "send") =>
             messages' = Append(messages, UserMessage(NewCall.body.message))]_vars

C24_Witness ==
    /\ last.op = "send"
    /\ messages = <<UserMessage("hi"), UserMessage("hi")>>
    /\ chatLoading

\* the answer just applied is consent-required and carries a link and an id
ConsentWithLinkAndId(data) ==
    /\ data.status = "oauth_consent_required"
    /\ Present(data.consent_link)
    /\ Present(data.response_id)

(***************************************************************************)
(* C25.  Scenario C.  A sent message answered by a consent-required        *)
(* response with a link and a response_id puts the session in consent mode *)
(* with the one explanatory assistant message appended and the chain token *)
(* set to that response_id; consent-completed then sends a continue        *)
(* request with that token; and a final output answering it clears the     *)
(* consent link, appends the output as an assistant message and leaves the *)
(* mode Idle.                                                              *)
(***************************************************************************)
C25_ScenarioC ==
    /\ [][(Received /\ last'.from = "send" /\ ConsentWithLinkAndId(last'.resp)) =>
             /\ Mode' = "AwaitingConsent"
             /\ oauthConsentLink' = last'.resp.consent_link
             /\ messages' = Append(messages, [role |-> "assistant", text |-> ConsentNotice])
             /\ previousResponseId' = last'.resp.response_id]_vars
    /\ []((/\ last.op = "recv" /\ last.from = "send"
           /\ ConsentWithLinkAndId(last.resp)
           /\ Len(calls) < MaxCalls) =>
             ENABLED (/\ ResumeAfterOauthConsent
                      /\ Sent
                      /\ "action" \in DOMAIN NewCall.body
                      /\ NewCall.body.action = "continue"
                      /\ NewCall.body.previous_response_id = last.resp.response_id
                      /\ messages' = messages))
    /\ [][(Received /\ last'.from = "resume" /\ IsFinal(last'.resp)) =>
             /\ oauthConsentLink' = NULL
             /\ messages' = Append(messages,
                    [role |-> "assistant", text |-> OutputTextOf(last'.resp)])
             /\ Mode' = "Idle"]_vars

C25_Witness ==
    /\ last.op = "recv" /\ last.from = "resume" /\ ~last.stale
    /\ IsFinal(last.resp) /\ last.resp.output_text = "out"
    /\ messages = <<UserMessage("hi"),
                    [role |-> "assistant", text |-> ConsentNotice],
                    [role |-> "assistant", text |-> "out"]>>
    /\ oauthConsentLink = NULL
    /\ previousResponseId = "r2"
    /\ Mode = "Idle"

\* the answer to a send asks for the approval of the one request a1 and
\* carries a response_id
OneItemBatch(data) ==
    /\ data.status = "approval_required"
    /\ data.approval_requests = <<"a1">>
    /\ Present(data.response_id)

(***************************************************************************)
(* C26.  Scenarios A and B.  A sent message puts the session in the        *)
(* in-flight mode; an approvals-required response with one item puts it in *)
(* approvals mode with that item denied by default; the user can approve   *)
(* it, and the submission then carries approve = true for that id and the  *)
(* chain token received with the batch; a final output answering it        *)
(* appends the output as an assistant message and leaves the mode Idle     *)
(* with no batch pending.                                                  *)
(***************************************************************************)
C26_ScenariosAB ==
    /\ [][(Sent /\ NewCall.op = "send") => Mode' = "AwaitingAssistant"]_vars
    /\ [][(Received /\ last'.from = "send" /\ ~ConsentPending /\ OneItemBatch(last'.resp)) =>
             /\ Mode' = "AwaitingApprovals"
             /\ pendingApprovals' = <<"a1">>
             /\ approvalDecisions' = [id \in {"a1"} |-> FALSE]
             /\ messages' = messages]_vars
    /\ []((/\ last.op = "recv" /\ last.from = "send" /\ OneItemBatch(last.resp)
           /\ Len(calls) < MaxCalls) =>
             /\ approvalDecisions = [id \in {"a1"} |-> FALSE] =>
                   ENABLED (/\ ToggleDecision("a1")
                            /\ approvalDecisions' = [id \in {"a1"} |-> TRUE])
             /\ approvalDecisions = [id \in {"a1"} |-> TRUE] =>
                   ENABLED (/\ SubmitApprovals
                            /\ Sent
                            /\ NewCall.body.approvals =
                                  <<[approval_request_id |-> "a1", approve |-> TRUE]>>
                            /\ NewCall.body.previous_response_id = last.resp.response_id))
    /\ [][(Received /\ last'.from = "approve" /\ IsFinal(last'.resp)) =>
             /\ messages' = Append(messages,
                    [role |-> "assistant", text |-> OutputTextOf(last'.resp)])
             /\ ~BatchPending'
             /\ Mode' = "Idle"]_vars

C26_Witness ==
    /\ last.op = "recv" /\ last.from = "approve" /\ ~last.stale
    /\ IsFinal(last.resp) /\ last.resp.output_text = "out"
    /\ messages = <<UserMessage("hi"), [role |-> "assistant", text |-> "out"]>>
    /\ pendingApprovals = NoBatch
    /\ approvalDecisions = EmptyDecisions
    /\ Mode = "Idle"

(***************************************************************************)
(* C27.  Frame of the two pending branches.  Applying an approvals-        *)
(* required response appends no message and leaves the stored consent link *)
(* and consent token as they are; applying a consent-required response     *)
(* leaves the stored batch, the batch token and the decisions as they are. *)
(***************************************************************************)
C27_PendingBranchFrames ==
    /\ [][(Received /\ last'.resp.status = "approval_required") =>
             /\ messages' = messages
             /\ oauthConsentLink' = oauthConsentLink
             /\ pendingResponseIdForOauth' = pendingResponseIdForOauth]_vars
    /\ [][(Received /\ last'.resp.status = "oauth_consent_required") =>
             /\ pendingApprovals' = pendingApprovals
             /\ pendingResponseIdForApproval' = pendingResponseIdForApproval
             /\ approvalDecisions' = approvalDecisions]_vars

C27_Witness ==
    /\ last.op = "recv" /\ last.from = "resume" /\ ~last.stale
    /\ last.resp.status = "approval_required"
    /\ oauthConsentLink = "l1" /\ pendingResponseIdForOauth = "r1"
    /\ pendingApprovals = <<"a1">> /\ pendingResponseIdForApproval = "r2"
    /\ messages = <<UserMessage("hi"), [role |-> "assistant", text |-> ConsentNotice]>>

\* the step applies an approvals-required answer
BatchArrives == Received /\ last'.resp.status = "approval_required"
\* the step leaves neither a batch nor a batch token
BatchCleared == pendingApprovals' = NoBatch /\ pendingResponseIdForApproval' = NULL

(***************************************************************************)
(* C28.  The request of submitApprovals carries as previous_response_id    *)
(* the response_id that arrived in the same response as the batch it       *)
(* submits, whatever has been received since.  The batch and the batch     *)
(* token are stored together from one response, neither changes afterwards *)
(* except by a new batch arriving or by both being cleared, and the        *)
(* request carries the stored batch token.                                 *)
(***************************************************************************)
C28_BatchTokenOfItsResponse ==
    /\ [][BatchArrives =>
             /\ pendingApprovals' = OrEmpty(last'.resp.approval_requests)
             /\ pendingResponseIdForApproval' =
                   (IF Present(last'.resp.response_id) THEN last'.resp.response_id ELSE NULL)]_vars
    /\ [][(\/ pendingApprovals' # pendingApprovals
           \/ pendingResponseIdForApproval' # pendingResponseIdForApproval) =>
             (BatchArrives \/ BatchCleared)]_vars
    /\ [][(Sent /\ NewCall.op = "approve") =>
             /\ Present(pendingResponseIdForApproval)
             /\ NewCall.body.previous_response_id = pendingResponseIdForApproval
             /\ Len(NewCall.body.approvals) = Len(pendingApprovals)]_vars

C28_Witness ==
    /\ last.op = "approve"
    /\ previousResponseId = "r2"
    /\ pendingResponseIdForApproval = "r1"
    /\ \E i \in 1..Len(calls) :
          /\ calls[i].op = "approve"
          /\ calls[i].body.previous_response_id = "r1"

(***************************************************************************)
(* C29.  Every accepted chat action ends its in-flight phase: when the     *)
(* token acquisition and the fetch always settle, chatLoading, once true,  *)
(* becomes false again; and chatLoading goes from true to false only on a  *)
(* step that ends a call (an answer applied or a failure), so nothing      *)
(* clears it while the fetch has not completed.                            *)
(***************************************************************************)
C29_LoadingEnds ==
    /\ [][(chatLoading /\ ~chatLoading') => (Received \/ FailedStep)]_vars
    /\ [](chatLoading => calls # <<>>)
    /\ (chatLoading ~> ~chatLoading)

C29_Witness ==
    /\ ~chatLoading
    /\ last.op = "fail" /\ last.from = "approve"
    /\ error = NoTokenError
    /\ calls = <<>>

\* a consent link is stored with no consent token; a batch with no batch token
ConsentDeadEnd == ConsentPending /\ Falsy(pendingResponseIdForOauth)
BatchDeadEnd == BatchPending /\ Falsy(pendingResponseIdForApproval)

(***************************************************************************)
(* C30.  A consent-required response with a consent_link and no            *)
(* response_id leaves the link stored with a null consent token: the chat  *)
(* input is disabled, consent-completed sends nothing, and the session     *)
(* leaves that state only by New chat or sign-out.  An approvals-required  *)
(* response with a non-empty batch and no response_id leaves a batch that  *)
(* submitApprovals does not send.                                          *)
(***************************************************************************)
C30_DeadEndWithoutResponseId ==
    /\ [][(/\ Received
           /\ last'.resp.status = "oauth_consent_required"
           /\ Present(last'.resp.consent_link)
           /\ ~Present(last'.resp.response_id)) => ConsentDeadEnd']_vars
    /\ [](ConsentDeadEnd =>
             /\ ChatInputDisabled
             /\ ~ENABLED (SendMessage /\ Sent)
             /\ ~ENABLED (ResumeAfterOauthConsent /\ Sent))
    /\ [][(ConsentDeadEnd /\ ~ConsentDeadEnd') => last'.op \in {"reset", "logout"}]_vars
    /\ [][(/\ Received
           /\ last'.resp.status = "approval_required"
           /\ OptLen(last'.resp.approval_requests) > 0
           /\ ~Present(last'.resp.response_id)) => BatchDeadEnd']_vars
    /\ [](BatchDeadEnd => ~ENABLED (SubmitApprovals /\ Sent))

(***************************************************************************)
(* C31.  In every reachable state that stores an approval batch, the keys  *)
(* of the decision map are exactly the ids of that batch; in every state   *)
(* that stores none (initially, after a final output, New chat or          *)
(* sign-out) the decision map is empty.                                    *)
(***************************************************************************)
C31_DecisionKeysAreBatchIds ==
    /\ pendingApprovals # NoBatch => DOMAIN approvalDecisions = Range(pendingApprovals)
    /\ pendingApprovals = NoBatch => approvalDecisions = EmptyDecisions

C31_Witness ==
    /\ pendingApprovals = <<"a1", "a2">>
    /\ approvalDecisions = [id \in {"a1", "a2"} |-> id = "a2"]
    /\ last.op = "recv" /\ last.from = "approve"

\* a step of the approval panel's checkboxes or of Deny all: the decisions
\* change and nothing has been sent, received, failed or cleared
DecisionStep == approvalDecisions' # approvalDecisions /\ last' = last

\* the ids whose decision the step changes
ChangedIds ==
    {id \in DOMAIN approvalDecisions' :
        id \notin DOMAIN approvalDecisions \/ approvalDecisions'[id] # approvalDecisions[id]}

(***************************************************************************)
(* C32.  The checkbox of one approval request changes only that id's       *)
(* decision; Deny all leaves every id of the pending batch false; neither  *)
(* sends a request nor changes the transcript, the chain token, the        *)
(* pending batch and its token, or the consent state.                      *)
(***************************************************************************)
C32_DecisionsOnly ==
    /\ [][DecisionStep =>
             /\ UNCHANGED <<messages, previousResponseId, pendingApprovals,
                            pendingResponseIdForApproval, oauthConsentLink,
                            pendingResponseIdForOauth, calls, chatLoading, error>>
             /\ DOMAIN approvalDecisions' = Range(pendingApprovals)
             /\ \/ Cardinality(ChangedIds) = 1
                \/ \A id \in Range(pendingApprovals) : ~approvalDecisions'[id]]_vars
    /\ [](BatchPending =>
             \A id \in Range(pendingApprovals) :
                /\ ENABLED (ToggleDecision(id) /\ ChangedIds = {id})
                /\ ~ENABLED (ToggleDecision(id) /\ ChangedIds # {id}))
    /\ []((BatchPending /\ ~chatLoading) =>
             ~ENABLED (DenyAll /\ \E id \in Range(pendingApprovals) : approvalDecisions'[id]))

C32_Witness ==
    /\ pendingApprovals = <<"a1", "a2">>
    /\ approvalDecisions = [id \in {"a1", "a2"} |-> id = "a1"]
    /\ last.op = "recv" /\ last.from = "send"
    /\ messages = <<UserMessage("hi")>>
    /\ calls = <<>>

\* a run of sendMessage that sends the trimmed input: the user message and the
\* message field of the request are the trimmed text and the input is cleared
SendsTrimmed ==
    /\ Sent
    /\ messages' = Append(messages, UserMessage(Trim(chatInput)))
    /\ NewCall.body.message = Trim(chatInput)
    /\ chatInput' = ""

\* the transcript and the calls leave room for one more send
RoomToSend == Len(messages) < MaxMsgs /\ Len(calls) < MaxCalls

(***************************************************************************)
(* C33, as claimed: sendMessage with an empty or whitespace-only input     *)
(* changes nothing; with any other input it appends the trimmed text,      *)
(* sends it as the message field and clears the input box.                 *)
(***************************************************************************)
C33_SendTrimsOrIgnores ==
    /\ Trim(chatInput) = "" => ~ENABLED (sendMessage /\ ~UNCHANGED vars)
    /\ (Trim(chatInput) # "" /\ RoomToSend) => ENABLED (sendMessage /\ SendsTrimmed)

(***************************************************************************)
(* C33, amended: sendMessage with an empty or whitespace-only input, or    *)
(* run while a request is in flight, changes nothing; with any other input *)
(* and no request in flight it appends the trimmed text, sends it as the   *)
(* message field and clears the input box; the user message is in the      *)
(* transcript from the step that issues the request on.                    *)
(***************************************************************************)
C33_SendTrimsUnlessLoading ==
    /\ []((Trim(chatInput) = "" \/ chatLoading) =>
             ~ENABLED (sendMessage /\ ~UNCHANGED vars))
    /\ []((Trim(chatInput) # "" /\ ~chatLoading /\ RoomToSend) =>
             /\ ENABLED (sendMessage /\ SendsTrimmed)
             /\ ~ENABLED (sendMessage /\ ~SendsTrimmed))
    /\ [][(Sent /\ NewCall.op = "send") =>
             /\ SendsTrimmed
             /\ NewCall.body.message \notin {"", " ", " hi "}]_vars
    /\ [](\A i \in 1..Len(calls) :
             (calls[i].op = "send" /\ ~calls[i].stale) =>
                \E j \in 1..Len(messages) : messages[j] = UserMessage(calls[i].body.message))

C33_Witness ==
    /\ last.op = "send"
    /\ chatInput = ""
    /\ messages = <<UserMessage("hi")>>
    /\ calls # <<>>
    /\ calls[1].body.message = "hi"
    /\ previousResponseId = NULL


(***************************************************************************)
(* C34: signing out resets the transcript, the chain token, the pending    *)
(* approval batch, the decisions, both pending tokens and the consent      *)
(* link, and discards the cached access token and its claims, whatever     *)
(* the mode was: the button is offered in every signed-in state, and no    *)
(* sign-out leaves one of these set.                                       *)
(***************************************************************************)
SignedOutState ==
    /\ messages = <<>>
    /\ previousResponseId = NULL
    /\ pendingApprovals = NoBatch
    /\ approvalDecisions = EmptyDecisions
    /\ pendingResponseIdForApproval = NULL
    /\ pendingResponseIdForOauth = NULL
    /\ oauthConsentLink = NULL
    /\ accessToken = NULL
    /\ tokenClaims = NULL

C34_SignOutClearsSession ==
    /\ SignedIn => ENABLED Logout
    /\ ~ENABLED (Logout /\ ~SignedOutState')
    /\ [][(last'.op = "logout" /\ last' # last) => SignedOutState']_vars

C34_Witness ==
    /\ last.op = "logout"
    /\ last.from = "AwaitingApprovals"
    /\ SignedOutState
    /\ lastRid = "none"


(***************************************************************************)
(* C35: silent token acquisition has four outcomes and always returns.     *)
(* Without an account it returns null and changes nothing.  With one:      *)
(* a token is stored with its decoded claims, the needs-consent flag is    *)
(* cleared and the token is returned; an interaction-required failure      *)
(* sets the flag, sets no error and returns null; any other failure sets   *)
(* the error, leaves the flag as it was and returns null.                  *)
(***************************************************************************)
TokenStored(o) ==
    /\ accessToken' = o
    /\ tokenClaims' = decodeJwtPayload(o)
    /\ needsConsent' = FALSE
    /\ error' = NULL

ConsentFlagged ==
    /\ needsConsent' = TRUE
    /\ error' = NULL
    /\ UNCHANGED <<accessToken, tokenClaims>>

ErrorSet ==
    /\ error' = TokenFailure
    /\ UNCHANGED <<needsConsent, accessToken, tokenClaims>>

C35_SilentTokenOutcomes ==
    \A o \in TokenOutcomes :
        /\ ENABLED RefreshToken(o)
        /\ account = NULL =>
              /\ ~ENABLED (RefreshToken(o) /\ ~UNCHANGED vars)
              /\ TokenReturned(o) = NULL
        /\ (account # NULL /\ o \in Tokens) =>
              /\ ~ENABLED (RefreshToken(o) /\ ~TokenStored(o))
              /\ TokenReturned(o) = o
        /\ (account # NULL /\ o = "interaction_required") =>
              /\ ~ENABLED (RefreshToken(o) /\ ~ConsentFlagged)
              /\ TokenReturned(o) = NULL
        /\ (account # NULL /\ o = "failure") =>
              /\ ~ENABLED (RefreshToken(o) /\ ~ErrorSet)
              /\ TokenReturned(o) = NULL

\* a token was stored, then consent was asked for, then another failure came
C35_Witness ==
    /\ account # NULL
    /\ accessToken = "tok"
    /\ tokenClaims = decodeJwtPayload("tok")
    /\ needsConsent
    /\ error = TokenFailure

\* nobody is signed in: the first outcome's case
C35_WitnessNoAccount ==
    /\ account = NULL
    /\ ENABLED RefreshToken("tok")


(***************************************************************************)
(* bootstrap (index.js): the identity client is initialized, the redirect  *)
(* result is processed, the active account is chosen, and only then the    *)
(* page is rendered.  The account cache and the active account live in the *)
(* browser's storage, so a start can find accounts of an earlier session.  *)
(***************************************************************************)
CachedAccounts == {<<>>, <<"old">>, <<"acct">>, <<"old", "acct">>, <<"acct", "old">>}
RedirectAccounts == {"acct", "new"}
RedirectResults == {NullResult} \cup [account : {NULL} \cup RedirectAccounts]

BootInit ==
    /\ useStateInit
    /\ account = NULL
    /\ \E c \in CachedAccounts : \E a \in {NULL} \cup Range(c) :
          msalInstance = [initialized |-> FALSE, accounts |-> c, activeAccount |-> a]
    /\ redirectResp = NullResult
    /\ pc = "initialize"
    /\ redirect = "pending"

\* await msalInstance.initialize()
Initialize(ok) ==
    /\ pc = "initialize"
    /\ IF ok
       THEN /\ msalInstance' = [msalInstance EXCEPT !.initialized = TRUE]
            /\ pc' = "handleRedirect"
       ELSE /\ pc' = "rejected"
            /\ UNCHANGED msalInstance
    /\ UNCHANGED <<appVars, account, redirectResp, redirect>>

\* the cache once handleRedirectPromise has resolved with r
CacheWith(r) ==
    IF Falsy(r.account) \/ r.account \in Range(msalInstance.accounts)
    THEN msalInstance.accounts
    ELSE Append(msalInstance.accounts, r.account)

\* await msalInstance.handleRedirectPromise() resolves with r
HandleRedirect(r) ==
    /\ pc = "handleRedirect"
    /\ redirectResp' = r
    /\ msalInstance' = [msalInstance EXCEPT !.accounts = CacheWith(r)]
    /\ redirect' = "done"
    /\ pc' = "setActive"
    /\ UNCHANGED <<appVars, account>>

\* handleRedirectPromise rejects: the catch logs and gives null
HandleRedirectFails ==
    /\ pc = "handleRedirect"
    /\ redirectResp' = NullResult
    /\ redirect' = "failed"
    /\ pc' = "setActive"
    /\ UNCHANGED <<appVars, account, msalInstance>>

\* mutant: the first cached account is preferred to the redirect result's
SetActiveAccountFirstCached ==
    /\ pc = "setActive"
    /\ IF Len(msalInstance.accounts) > 0
       THEN msalInstance' = [msalInstance EXCEPT !.activeAccount = msalInstance.accounts[1]]
       ELSE IF ~Falsy(redirectResp.account)
       THEN msalInstance' = [msalInstance EXCEPT !.activeAccount = redirectResp.account]
       ELSE UNCHANGED msalInstance
    /\ pc' = "render"
    /\ UNCHANGED <<appVars, account, redirectResp, redirect>>

\* if (resp?.account) ... else ...
SetActiveAccount ==
    /\ pc = "setActive"
    /\ IF ~Falsy(redirectResp.account)
       THEN msalInstance' = [msalInstance EXCEPT !.activeAccount = redirectResp.account]
       ELSE IF Len(msalInstance.accounts) > 0
       THEN msalInstance' = [msalInstance EXCEPT !.activeAccount = msalInstance.accounts[1]]
       ELSE UNCHANGED msalInstance
    /\ pc' = "render"
    /\ UNCHANGED <<appVars, account, redirectResp, redirect>>

\* getActiveAccount() ?? accounts?.[0] ?? null, as App reads it when it mounts
AccountOf(m) ==
    IF m.activeAccount # NULL THEN m.activeAccount
    ELSE IF Len(m.accounts) > 0 THEN m.accounts[1]
    ELSE NULL

\* addEventCallback and root.render
Render ==
    /\ pc = "render"
    /\ pc' = "rendered"
    /\ account' = AccountOf(msalInstance)
    /\ UNCHANGED <<appVars, msalInstance, redirectResp, redirect>>

InitializeSettles == \E ok \in BOOLEAN : Initialize(ok)
RedirectResolves == \E r \in RedirectResults : HandleRedirect(r)

BootNext ==
    \/ InitializeSettles
    \/ RedirectResolves
    \/ HandleRedirectFails
    \/ SetActiveAccount
    \/ Render

BootSpec == BootInit /\ [][BootNext]_vars

(***************************************************************************)
(* C36: the page is rendered only after the identity client has been       *)
(* initialized and the redirect result processed; a redirect that fails    *)
(* does not stop bootstrap on its way to rendering; and the active account *)
(* is the redirect result's account when it has one, else the first cached *)
(* account when there is one, else it is not set.                          *)
(***************************************************************************)
HasRedirectAccount == ~Falsy(redirectResp.account)
ActiveChosen == pc \in {"render", "rendered"}

C36_BootstrapOrderAndAccount ==
    /\ pc = "rendered" => (msalInstance.initialized /\ redirect # "pending")
    /\ (pc = "setActive" /\ redirect = "failed") => ENABLED SetActiveAccount
    /\ pc = "render" => ENABLED Render
    /\ (ActiveChosen /\ HasRedirectAccount) =>
          msalInstance.activeAccount = redirectResp.account
    /\ (ActiveChosen /\ ~HasRedirectAccount /\ Len(msalInstance.accounts) > 0) =>
          msalInstance.activeAccount = msalInstance.accounts[1]
    /\ (ActiveChosen /\ ~HasRedirectAccount /\ Len(msalInstance.accounts) = 0) =>
          msalInstance.activeAccount = NULL
    /\ (pc = "setActive" /\ ~HasRedirectAccount /\ Len(msalInstance.accounts) = 0) =>
          ~ENABLED (SetActiveAccount /\ ~UNCHANGED msalInstance)

\* rendered with the redirect's new account although an older one is cached first
C36_Witness ==
    /\ pc = "rendered"
    /\ redirectResp.account = "new"
    /\ msalInstance.accounts[1] = "old"
    /\ msalInstance.activeAccount = "new"
    /\ account = "new"

\* rendered although processing the redirect failed
C36_WitnessRedirectFailed ==
    /\ pc = "rendered"
    /\ redirect = "failed"
    /\ account = "old"

====
